---- MODULE Spec2Model ----
(***************************************************************************)
(* A model of src/server.js (the second, tracking version of the service,  *)
(* lines 164-431): an Express application that receives the order          *)
(* lifecycle webhooks of a commerce platform and adjusts inventory through *)
(* the platform's admin API, remembering in processedOrders the orders it  *)
(* has deducted.                                                           *)
(*                                                                         *)
(* Node runs one callback at a time, so a handler is atomic between two    *)
(* awaits: one action is one such run (a request being dispatched, or a    *)
(* platform response being delivered to the handler that awaits it).       *)
(* Handlers of different requests interleave at the awaits.                *)
(***************************************************************************)
EXTENDS Integers, Sequences, FiniteSets, Bags, TLC

VARIABLES
    processedOrders,   \* the Set of line 197: stringified order identifiers
    reqs               \* the bag of the requests received so far

vars == <<processedOrders, reqs>>

(***************************************************************************)
(* Bounds of the model.                                                    *)
(***************************************************************************)
\* the number of requests one behaviour receives
MaxReq == 3
\* the largest number of line items of one order
MaxItems == 2

(***************************************************************************)
(* Values.                                                                 *)
(***************************************************************************)
CREATED == "order-created"
CANCELLED == "order-cancelled"
FULFILLED == "order-fulfilled"
Webhooks == {CREATED, CANCELLED, FULFILLED}
\* The routes without verifyWebhook (lines 364, 373, 390).
HEALTH == "health"
TEST_CONNECTION == "test-connection"
TEST_PROCESS_ORDER == "test/process-order"

\* A JSON order identifier is a number or a string; a string is the
\* sequence of its characters.
NumberId(n) == [t |-> "number", n |-> n, s |-> <<>>]
StringId(s) == [t |-> "string", n |-> 0, s |-> s]
OrderIds == {NumberId(1001), StringId(<<"2", "0", "0", "2">>)}

\* The line items of the platform's orders: the k-th is k units of one
\* variant.
LineItemOf(k) == [variant_id |-> 50 + (5 * k), quantity |-> k]

\* The line_items an order may carry.
LineItemLists == { [j \in 1..k |-> LineItemOf(j)] : k \in 0..MaxItems }

\* A parsed request body: an order.  has_line_items is FALSE for a body
\* that carries no line_items field.
Bodies ==
    { [id |-> id, line_items |-> items, has_line_items |-> TRUE] :
        id \in OrderIds, items \in LineItemLists }
    \cup { [id |-> id, line_items |-> <<>>, has_line_items |-> FALSE] :
             id \in OrderIds }

Digits == <<"0", "1", "2", "3", "4", "5", "6", "7", "8", "9">>

RECURSIVE NumberToString(_)
NumberToString(n) ==
    IF n < 10 THEN <<Digits[n + 1]>>
    ELSE NumberToString(n \div 10) \o <<Digits[(n % 10) + 1]>>

\* order.id.toString()
IdToString(id) == IF id.t = "number" THEN NumberToString(id.n) ELSE id.s

(***************************************************************************)
(* The webhook signature.                                                  *)
(***************************************************************************)
SHOPIFY_WEBHOOK_SECRET == "secret"
Keys == {SHOPIFY_WEBHOOK_SECRET, "other key"}

\* The bytes of a request body: a JSON text is the value it denotes and the
\* way it is written.
Formats == {"compact", "spaced"}
Raw(body, fmt) == [body |-> body, fmt |-> fmt]

\* express.json(): the value the text denotes
JsonParse(raw) == raw.body
\* JSON.stringify writes a value in one way
JsonStringify(body) == Raw(body, "compact")

\* An HMAC-SHA256 in base64, taken as collision free: the tag names the key
\* and the bytes it was computed over.
Hmac(key, raw) == <<key, raw>>
NoHeader == <<>>

\* What the text of a body was before somebody changed it on the way.
Altered(raw) == [raw EXCEPT !.body.id = NumberId(0)]

\* The X-Shopify-Hmac-Sha256 headers a request whose bytes are raw may
\* arrive with: none, the sender's tag of these bytes under the secret or
\* under another key, or the tag of the bytes before they were altered.
Headers(raw) ==
    {NoHeader} \cup { Hmac(k, raw) : k \in Keys } \cup
    {Hmac(SHOPIFY_WEBHOOK_SECRET, Altered(raw))}

\* What is left of a request that verifyWebhook turned away.
NoBody == [id |-> NumberId(0), line_items |-> <<>>, has_line_items |-> FALSE]

(***************************************************************************)
(* The platform.                                                           *)
(***************************************************************************)
\* variant.inventory_item_id of the variant lookup's response
InventoryItemIdOf(variantId) == 7000 + variantId

\* The location ids of the inventory_levels a lookup may return.
LevelLists == { <<>>, <<2, 1>> }

\* The calls of shopifyAPI.
GetVariant(variantId) == <<"GET variant", variantId>>
GetInventoryLevels(itemId) == <<"GET inventory_levels", itemId>>
PostAdjust(locationId, itemId, adjustment) ==
    <<"POST adjust", locationId, itemId, adjustment>>

(***************************************************************************)
(* A request.                                                              *)
(*   pc       received: not yet routed; variant, levels, adjust: its       *)
(*            handler awaits that call of updateInventoryForVariant; done: *)
(*            responded.                                                   *)
(*   path     the branch its processing took.                              *)
(*   i        the index of the line item the loop is at.                   *)
(*   calls    the platform calls of the running updateInventoryForVariant. *)
(*   attempts the finished calls of updateInventoryForVariant.             *)
(***************************************************************************)
NewRequest(kind, raw, hmac) ==
    [ kind |-> kind, body |-> JsonParse(raw), hmac |-> hmac,
      pc |-> "received", status |-> 0, path |-> "none", i |-> 0,
      inventoryItemId |-> 0, levels |-> <<>>, calls |-> <<>>,
      attempts |-> <<>> ]

Init ==
    /\ processedOrders = {}
    /\ reqs = EmptyBag

(***************************************************************************)
(* verifyWebhook (lines 179-194).                                          *)
(***************************************************************************)
\* A slip: a request without the header is let through.
verifyWebhook_MissingHeaderPasses(q) ==
    \/ q.hmac = NoHeader
    \/ Hmac(SHOPIFY_WEBHOOK_SECRET, JsonStringify(q.body)) = q.hmac

\* The recomputed hash is compared with the header; a request without the
\* header has hmac undefined, which no hash equals.
verifyWebhook(q) ==
    Hmac(SHOPIFY_WEBHOOK_SECRET, JsonStringify(q.body)) = q.hmac

(***************************************************************************)
(* The Tracked Order Set.                                                  *)
(***************************************************************************)
\* A slip: the order is not remembered (the service before line 204 was
\* written).
TrackOrder_Forgotten(set, id) == set

\* processedOrders.add(order.id.toString())
TrackOrder(set, id) == set \cup {IdToString(id)}
\* A slip: the check is missing.
IsTracked_Always(set, id) == TRUE

\* processedOrders.has(order.id.toString())
IsTracked(set, id) == IdToString(id) \in set
\* A slip: the set is cleared.
UntrackOrder_All(set, id) == {}

\* processedOrders.delete(order.id.toString())
UntrackOrder(set, id) == set \ {IdToString(id)}

(***************************************************************************)
(* The handlers.  Each operator gives the request and the set as one run   *)
(* of the handler leaves them: [req |-> ..., set |-> ...].                 *)
(***************************************************************************)
After(q, set) == [req |-> q, set |-> set]

\* res.status(code).send(...): the handler's locals are gone.
Respond(q, code) ==
    [q EXCEPT !.pc = "done", !.status = code, !.i = 0,
              !.inventoryItemId = 0, !.levels = <<>>, !.calls = <<>>]

LineItem(q) == q.body.line_items[q.i]

\* -lineItem.quantity (line 208)
DeductionOf(quantity) == 0 - quantity
\* A slip: the restoration deducts.
RestorationOf_Negated(quantity) == 0 - quantity

\* lineItem.quantity (line 312)
RestorationOf(quantity) == quantity
\* A slip: the compensation is doubled.
CompensationOf_Doubled(quantity) == 2 * quantity

\* lineItem.quantity (line 345)
CompensationOf(quantity) == quantity

\* -lineItem.quantity (line 401)
TestDeductionOf(quantity) == 0 - quantity

\* the second argument of updateInventoryForVariant in the loops
AdjustmentOf(q) ==
    CASE q.kind = CREATED -> DeductionOf(LineItem(q).quantity)
      [] q.kind = CANCELLED -> RestorationOf(LineItem(q).quantity)
      [] q.kind = FULFILLED -> CompensationOf(LineItem(q).quantity)
      [] q.kind = TEST_PROCESS_ORDER -> TestDeductionOf(LineItem(q).quantity)

\* updateInventoryForVariant up to its first await: the variant lookup is
\* issued.
StartVariantUpdate(q) ==
    [q EXCEPT !.pc = "variant", !.inventoryItemId = 0, !.levels = <<>>,
              !.calls = <<GetVariant(LineItem(q).variant_id)>>]

\* A slip: the order stays in the set.
AfterCancelLoop_NoDelete(q, set) == After(Respond(q, 200), set)

\* What follows the loop of order-cancelled: delete, respond.
AfterCancelLoop(q, set) == After(Respond(q, 200), UntrackOrder(set, q.body.id))
\* A slip that is a repair: an order whose compensation failed stays in the
\* set, for a later event to try again.
AfterFulfilLoop_KeepOnFailure(q, set) ==
    IF \A j \in 1..Len(q.attempts) : q.attempts[j].ok
    THEN After(Respond(q, 200), UntrackOrder(set, q.body.id))
    ELSE After(Respond(q, 200), set)

\* What follows the loop of order-fulfilled: delete, respond.
AfterFulfilLoop(q, set) == After(Respond(q, 200), UntrackOrder(set, q.body.id))
\* A slip: order-created ends without a response.
AfterCreateLoop_NoResponse(q, set) ==
    After([Respond(q, 0) EXCEPT !.pc = "returned"], set)

\* What follows updateInventoryForOrder in order-created: respond.
AfterCreateLoop(q, set) == After(Respond(q, 200), set)

\* The head of the for-of loop at index q.i.
Loop(q, set) ==
    IF q.i <= Len(q.body.line_items)
    THEN After(StartVariantUpdate(q), set)
    ELSE CASE q.kind = CREATED -> AfterCreateLoop(q, set)
           [] q.kind = CANCELLED -> AfterCancelLoop(q, set)
           [] q.kind = FULFILLED -> AfterFulfilLoop(q, set)

\* One call of updateInventoryForVariant is over: the loop goes on.
NextLineItem(q, set, ok) ==
    Loop([q EXCEPT !.attempts =
                      Append(@, [variant_id |-> LineItem(q).variant_id,
                                 adjustment |-> AdjustmentOf(q),
                                 ok |-> ok]),
                   !.i = @ + 1], set)

\* The outer catch of a handler (lines 291-294, 324-327, 357-360).
OnHandlerError(q, set) == After(Respond([q EXCEPT !.path = "threw"], 500), set)

\* updateInventoryForVariant resolved (lines 209, 313, 346).
OnVariantUpdated(q, set) == NextLineItem(q, set, TRUE)

\* A slip: the loop's body has no try, and the error reaches the outer
\* catch.
OnVariantUpdateFailed_Abort(q, set) == OnHandlerError(q, set)

\* updateInventoryForVariant threw: the catch of the loop's body logs the
\* error (lines 210-212, 314-316, 347-349).
OnVariantUpdateFailed(q, set) == NextLineItem(q, set, FALSE)

\* A slip that is a repair: an order that is tracked is not deducted again.
updateInventoryForOrder_Idempotent(q, set) ==
    IF ~q.body.has_line_items THEN OnHandlerError(q, set)
    ELSE IF IsTracked(set, q.body.id)
    THEN After(Respond([q EXCEPT !.path = "skipped"], 200), set)
    ELSE Loop([q EXCEPT !.path = "processed", !.i = 1],
              TrackOrder(set, q.body.id))

\* updateInventoryForOrder (lines 200-214) up to its first await.  Reading
\* order.line_items.length of a body without line_items throws at line 201.
updateInventoryForOrder(q, set) ==
    IF ~q.body.has_line_items THEN OnHandlerError(q, set)
    ELSE Loop([q EXCEPT !.path = "processed", !.i = 1],
              TrackOrder(set, q.body.id))

\* POST /webhooks/order-created (lines 279-295) up to its first await.
HandleOrderCreated(q, set) == updateInventoryForOrder(q, set)

\* POST /webhooks/order-cancelled (lines 298-328) up to its first await.
\* Iterating the line_items of a body without them throws at line 310.
HandleOrderCancelled(q, set) ==
    IF ~IsTracked(set, q.body.id)
    THEN After(Respond([q EXCEPT !.path = "skipped"], 200), set)
    ELSE IF ~q.body.has_line_items THEN OnHandlerError(q, set)
    ELSE Loop([q EXCEPT !.path = "processed", !.i = 1], set)

\* A slip that is a repair: the order is taken out of the set by the check
\* that finds it there.
HandleOrderFulfilled_TestAndClear(q, set) ==
    IF ~IsTracked(set, q.body.id)
    THEN After(Respond([q EXCEPT !.path = "skipped"], 200), set)
    ELSE IF ~q.body.has_line_items THEN OnHandlerError(q, set)
    ELSE Loop([q EXCEPT !.path = "processed", !.i = 1],
              UntrackOrder(set, q.body.id))

\* POST /webhooks/order-fulfilled (lines 331-361) up to its first await.
HandleOrderFulfilled(q, set) ==
    IF ~IsTracked(set, q.body.id)
    THEN After(Respond([q EXCEPT !.path = "skipped"], 200), set)
    ELSE IF ~q.body.has_line_items THEN OnHandlerError(q, set)
    ELSE Loop([q EXCEPT !.path = "processed", !.i = 1], set)

\* The route of a webhook: verifyWebhook, then the handler.
Route(q, set) ==
    IF ~verifyWebhook(q)
    THEN After(Respond([q EXCEPT !.path = "rejected", !.body = NoBody,
                                 !.hmac = NoHeader], 401), set)
    ELSE CASE q.kind = CREATED -> HandleOrderCreated(q, set)
           [] q.kind = CANCELLED -> HandleOrderCancelled(q, set)
           [] q.kind = FULFILLED -> HandleOrderFulfilled(q, set)

(***************************************************************************)
(* updateInventoryForVariant (lines 217-250) after each of its awaits.     *)
(***************************************************************************)
\* A slip: the last level is taken.
FirstLocation_Last(levels) == levels[Len(levels)]

\* inventory_levels[0].location_id (lines 233-234)
FirstLocation(levels) == levels[1]

\* The variant lookup answered: the inventory levels are looked up.
OnVariant(q) ==
    LET itemId == InventoryItemIdOf(LineItem(q).variant_id)
    IN  [q EXCEPT !.pc = "levels", !.inventoryItemId = itemId,
                  !.calls = Append(@, GetInventoryLevels(itemId))]

\* The lookup answered with levels, not empty: the adjustment is posted.
OnLevels(q, levels) ==
    [q EXCEPT !.pc = "adjust", !.levels = levels,
              !.calls = Append(@, PostAdjust(FirstLocation(levels),
                                             q.inventoryItemId,
                                             AdjustmentOf(q)))]

(***************************************************************************)
(* The actions.                                                            *)
(***************************************************************************)
\* The requests received so far.
Requests == BagToSet(reqs)

\* Request q makes a step.  Requests that are equal in everything are
\* interchangeable, so the bag holds all there is to know of them.
Step(q, out) ==
    /\ reqs' = (reqs (-) SetToBag({q})) (+) SetToBag({out.req})
    /\ processedOrders' = out.set

\* A request arrives: express.json() parses its body and the route runs
\* verifyWebhook and the handler, up to the handler's first await or its
\* response.
Arrival(kind, raw, hmac) ==
    LET out == Route(NewRequest(kind, raw, hmac), processedOrders)
    IN  /\ BagCardinality(reqs) < MaxReq
        /\ reqs' = reqs (+) SetToBag({out.req})
        /\ processedOrders' = out.set

Deliver ==
    \E kind \in Webhooks, body \in Bodies, fmt \in Formats :
      \E hmac \in Headers(Raw(body, fmt)) :
         Arrival(kind, Raw(body, fmt), hmac)

\* The variant lookup returns, or fails.
VariantResponse(q) ==
    /\ q.pc = "variant"
    /\ \/ Step(q, After(OnVariant(q), processedOrders))
       \/ Step(q, OnVariantUpdateFailed(q, processedOrders))

\* The inventory level lookup returns levels or none, or fails.
LevelsResponse(q) ==
    /\ q.pc = "levels"
    /\ \/ \E levels \in LevelLists :
            IF Len(levels) = 0
            THEN Step(q, OnVariantUpdateFailed(q, processedOrders))
            ELSE Step(q, After(OnLevels(q, levels), processedOrders))
       \/ Step(q, OnVariantUpdateFailed(q, processedOrders))

\* The adjustment returns, or fails.
AdjustResponse(q) ==
    /\ q.pc = "adjust"
    /\ \/ Step(q, OnVariantUpdated(q, processedOrders))
       \/ Step(q, OnVariantUpdateFailed(q, processedOrders))

Next ==
    \/ Deliver
    \/ \E q \in Requests : VariantResponse(q)
    \/ \E q \in Requests : LevelsResponse(q)
    \/ \E q \in Requests : AdjustResponse(q)

Spec == Init /\ [][Next]_vars

(***************************************************************************)
(* Deliveries for one order processed one at a time: a request for an      *)
(* order arrives only when no handler of that order awaits a call.         *)
(***************************************************************************)
InFlightFor(id) ==
    \E q \in Requests : q.pc # "done" /\ IdToString(q.body.id) = IdToString(id)

DeliverInTurn ==
    \E kind \in Webhooks, body \in Bodies, fmt \in Formats :
      \E hmac \in Headers(Raw(body, fmt)) :
         /\ ~InFlightFor(body.id)
         /\ Arrival(kind, Raw(body, fmt), hmac)

NextInTurn ==
    \/ DeliverInTurn
    \/ \E q \in Requests : VariantResponse(q)
    \/ \E q \in Requests : LevelsResponse(q)
    \/ \E q \in Requests : AdjustResponse(q)

SpecInTurn == Init /\ [][NextInTurn]_vars

(***************************************************************************)
(* The routes without verifyWebhook: GET /health (lines 364-370),          *)
(* GET /test-connection (lines 373-387), POST /test/process-order (lines   *)
(* 390-414).  A request of these routes is a record of the same fields;    *)
(* the body of /test/process-order holds orderId as id and lineItems as    *)
(* line_items.                                                             *)
(***************************************************************************)
\* A body without orderId.
NoOrderId == [t |-> "missing", n |-> 0, s |-> <<>>]
TestOrderIds == {NoOrderId, NumberId(1001)}
TestBodies ==
    { [id |-> id, line_items |-> items, has_line_items |-> TRUE] :
         id \in TestOrderIds, items \in LineItemLists }
    \cup { [id |-> id, line_items |-> <<>>, has_line_items |-> FALSE] :
             id \in TestOrderIds }

\* !orderId (line 394): undefined, 0 and "" are falsy.
NotOrderId(id) ==
    \/ id.t = "missing"
    \/ id.t = "number" /\ id.n = 0
    \/ id.t = "string" /\ id.s = <<>>
\* !lineItems (line 394): an array, even an empty one, is truthy.
NotLineItems(body) == ~body.has_line_items

GetShop == <<"GET shop">>

\* What follows the loop of /test/process-order: respond (lines 405-408).
AfterTestLoop(q, set) == After(Respond(q, 200), set)

\* The head of the for-of loop of /test/process-order (line 400).
TestLoop(q, set) ==
    IF q.i <= Len(q.body.line_items)
    THEN After(StartVariantUpdate(q), set)
    ELSE AfterTestLoop(q, set)

\* updateInventoryForVariant resolved (line 402): the loop goes on.
OnTestVariantUpdated(q, set) ==
    TestLoop([q EXCEPT !.attempts =
                          Append(@, [variant_id |-> LineItem(q).variant_id,
                                     adjustment |-> AdjustmentOf(q),
                                     ok |-> TRUE]),
                       !.i = @ + 1], set)

\* A slip: the loop's body catches the error and the loop goes on.
OnTestVariantUpdateFailed_Caught(q, set) ==
    TestLoop([q EXCEPT !.attempts =
                          Append(@, [variant_id |-> LineItem(q).variant_id,
                                     adjustment |-> AdjustmentOf(q),
                                     ok |-> FALSE]),
                       !.i = @ + 1], set)

\* updateInventoryForVariant threw: the loop's body has no try, the error
\* reaches the catch of the handler (lines 410-413).
OnTestVariantUpdateFailed(q, set) ==
    After(Respond([q EXCEPT !.attempts =
                              Append(@, [variant_id |-> LineItem(q).variant_id,
                                         adjustment |-> AdjustmentOf(q),
                                         ok |-> FALSE]),
                            !.path = "threw"], 500), set)

\* A slip: the test order is tracked as a webhook's order is.
HandleTestProcessOrder_Tracking(q, set) ==
    IF NotOrderId(q.body.id) \/ NotLineItems(q.body)
    THEN After(Respond([q EXCEPT !.path = "invalid"], 400), set)
    ELSE TestLoop([q EXCEPT !.path = "processed", !.i = 1],
                  TrackOrder(set, q.body.id))

\* POST /test/process-order (lines 390-414) up to its first await.
HandleTestProcessOrder(q, set) ==
    IF NotOrderId(q.body.id) \/ NotLineItems(q.body)
    THEN After(Respond([q EXCEPT !.path = "invalid"], 400), set)
    ELSE TestLoop([q EXCEPT !.path = "processed", !.i = 1], set)

\* GET /health (lines 364-370).
HandleHealth(q, set) == After(Respond([q EXCEPT !.path = "processed"], 200), set)

\* GET /test-connection (lines 373-387) up to its await.
HandleTestConnection(q, set) ==
    After([q EXCEPT !.path = "processed", !.pc = "shop", !.calls = <<GetShop>>],
          set)

\* A request of a route without verifyWebhook arrives.
PlainArrival(out) ==
    /\ BagCardinality(reqs) < MaxReq
    /\ reqs' = reqs (+) SetToBag({out.req})
    /\ processedOrders' = out.set

DeliverTestProcessOrder ==
    \E body \in TestBodies :
       LET q == NewRequest(TEST_PROCESS_ORDER, Raw(body, "compact"), NoHeader)
       IN  PlainArrival(HandleTestProcessOrder(q, processedOrders))

DeliverHealth ==
    LET q == NewRequest(HEALTH, Raw(NoBody, "compact"), NoHeader)
    IN  PlainArrival(HandleHealth(q, processedOrders))

DeliverTestConnection ==
    LET q == NewRequest(TEST_CONNECTION, Raw(NoBody, "compact"), NoHeader)
    IN  PlainArrival(HandleTestConnection(q, processedOrders))

\* The shop lookup returns (lines 376-380), or fails (lines 381-386).
ShopResponse(q) ==
    /\ q.pc = "shop"
    /\ \/ Step(q, After(Respond(q, 200), processedOrders))
       \/ Step(q, After(Respond([q EXCEPT !.path = "threw"], 500),
                        processedOrders))

\* The calls of updateInventoryForVariant in /test/process-order.
TestVariantResponse(q) ==
    /\ q.pc = "variant"
    /\ \/ Step(q, After(OnVariant(q), processedOrders))
       \/ Step(q, OnTestVariantUpdateFailed(q, processedOrders))

TestLevelsResponse(q) ==
    /\ q.pc = "levels"
    /\ \/ \E levels \in LevelLists :
            IF Len(levels) = 0
            THEN Step(q, OnTestVariantUpdateFailed(q, processedOrders))
            ELSE Step(q, After(OnLevels(q, levels), processedOrders))
       \/ Step(q, OnTestVariantUpdateFailed(q, processedOrders))

TestAdjustResponse(q) ==
    /\ q.pc = "adjust"
    /\ \/ Step(q, OnTestVariantUpdated(q, processedOrders))
       \/ Step(q, OnTestVariantUpdateFailed(q, processedOrders))

WebhookRequests == { q \in Requests : q.kind \in Webhooks }
TestRequests == { q \in Requests : q.kind = TEST_PROCESS_ORDER }

\* The whole server: every route.
NextAll ==
    \/ Deliver
    \/ \E q \in WebhookRequests : VariantResponse(q)
    \/ \E q \in WebhookRequests : LevelsResponse(q)
    \/ \E q \in WebhookRequests : AdjustResponse(q)
    \/ DeliverTestProcessOrder
    \/ DeliverHealth
    \/ DeliverTestConnection
    \/ \E q \in Requests : ShopResponse(q)
    \/ \E q \in TestRequests : TestVariantResponse(q)
    \/ \E q \in TestRequests : TestLevelsResponse(q)
    \/ \E q \in TestRequests : TestAdjustResponse(q)

SpecAll == Init /\ [][NextAll]_vars

(***************************************************************************)
(* Every platform call returns in the end, with an answer or an error: the *)
(* await of a handler does not last for ever.                              *)
(***************************************************************************)
CallsReturn ==
    /\ WF_vars(\E q \in Requests : VariantResponse(q))
    /\ WF_vars(\E q \in Requests : LevelsResponse(q))
    /\ WF_vars(\E q \in Requests : AdjustResponse(q))

SpecCallsReturn == Init /\ [][Next]_vars /\ CallsReturn

(***************************************************************************)
(* The process stops and starts again: the module is evaluated anew (line  *)
(* 197), and the handlers that awaited a call are gone with the process    *)
(* that ran them; what they had done on the platform stays done.           *)
(***************************************************************************)
\* A slip: the set outlives the process.
NewProcessedOrders_Persisted(set) == set

\* const processedOrders = new Set() (line 197)
NewProcessedOrders(set) == {}

\* A handler that dies with its process: it never responds.
Killed(q) ==
    IF q.pc = "done" THEN q
    ELSE [q EXCEPT !.pc = "dead", !.i = 0, !.inventoryItemId = 0,
                   !.levels = <<>>, !.calls = <<>>]

RECURSIVE KilledBag(_, _)
KilledBag(S, bag) ==
    IF S = {} THEN EmptyBag
    ELSE LET q == CHOOSE x \in S : TRUE
         IN  [x \in {Killed(q)} |-> CopiesIn(q, bag)]
             (+) KilledBag(S \ {q}, bag)

Restart ==
    /\ processedOrders # {} \/ \E q \in Requests : q.pc \notin {"done", "dead"}
    /\ reqs' = KilledBag(Requests, reqs)
    /\ processedOrders' = NewProcessedOrders(processedOrders)

NextRestart ==
    \/ Deliver
    \/ \E q \in Requests : VariantResponse(q)
    \/ \E q \in Requests : LevelsResponse(q)
    \/ \E q \in Requests : AdjustResponse(q)
    \/ Restart

SpecRestart == Init /\ [][NextRestart]_vars

(***************************************************************************)
(* What the properties speak of.                                           *)
(***************************************************************************)
\* The key of a request's order in processedOrders.
Key(q) == IdToString(q.body.id)
OrderKeys == { IdToString(id) : id \in OrderIds }
VariantIds == { LineItemOf(k).variant_id : k \in 1..MaxItems }

Terminal(q) == q.kind \in {CANCELLED, FULFILLED}
\* The requests of kind kind whose handler ran its loop for order k.
Passes(kind, k) ==
    { q \in Requests : q.kind = kind /\ q.path = "processed" /\ Key(q) = k }

\* The request a step has changed, as it was and as it is; the request a
\* step has brought.
Before == { q \in BagToSet(reqs) : CopiesIn(q, reqs) > CopiesIn(q, reqs') }
Now == { q \in BagToSet(reqs') : CopiesIn(q, reqs') > CopiesIn(q, reqs) }
Arriving == IF BagCardinality(reqs') > BagCardinality(reqs) THEN Now ELSE {}
\* The requests whose handler responds in this step.
Responding == { q \in Now : q.pc = "done" }

\* The adjustments a request has applied to a variant: those the platform
\* accepted.
RECURSIVE AppliedTo(_, _)
AppliedTo(attempts, variantId) ==
    IF attempts = <<>> THEN 0
    ELSE (IF Head(attempts).ok /\ Head(attempts).variant_id = variantId
          THEN Head(attempts).adjustment ELSE 0)
         + AppliedTo(Tail(attempts), variantId)

RECURSIVE NetOf(_, _, _)
NetOf(S, bag, variantId) ==
    IF S = {} THEN 0
    ELSE LET q == CHOOSE x \in S : TRUE
         IN  (CopiesIn(q, bag) * AppliedTo(q.attempts, variantId))
             + NetOf(S \ {q}, bag, variantId)

\* The sum of the adjustments applied for order k to a variant.
Net(k, variantId) ==
    NetOf({ q \in Requests : q.path = "processed" /\ Key(q) = k }, reqs,
          variantId)

\* The number of requests of a set, each counted as often as it came.
RECURSIVE Count(_, _)
Count(S, bag) ==
    IF S = {} THEN 0
    ELSE LET q == CHOOSE x \in S : TRUE
         IN  CopiesIn(q, bag) + Count(S \ {q}, bag)

AllOk(q) == \A j \in 1..Len(q.attempts) : q.attempts[j].ok

(***************************************************************************)
(* C1.  Once the order-created handler has finished processing an order,   *)
(* whatever the outcome of its adjustments, the stringified order          *)
(* identifier is in processedOrders.                                       *)
(***************************************************************************)
C1_TrackedWhenCreatedFinishes ==
    [][\A q \in Responding :
          (q.kind = CREATED /\ q.path = "processed")
             => Key(q) \in processedOrders']_vars

(***************************************************************************)
(* C2.  When order-cancelled or order-fulfilled is processed while the     *)
(* order is Tracked, the identifier is absent from processedOrders         *)
(* afterwards, and over the lifecycle of the order (order-created, then    *)
(* the terminal event) the adjustments applied for it sum to zero for      *)
(* every variant.                                                          *)
(***************************************************************************)
\* The requests for order k that passed verifyWebhook.
AcceptedFor(k) == { q \in Requests : q.path # "rejected" /\ Key(q) = k }

\* Order k has had its lifecycle, c then t: one order-created and one
\* terminal event that found it Tracked, with the same line items, both
\* answered.
Lifecycle(k, c, t) ==
    /\ Count(AcceptedFor(k), reqs) = 2
    /\ c \in Passes(CREATED, k) /\ c.pc = "done"
    /\ Terminal(t) /\ t \in AcceptedFor(k)
    /\ t.path = "processed" /\ t.pc = "done"
    /\ t.body.line_items = c.body.line_items

C3_UntrackedTerminalIsNoOp ==
    [][/\ \A q \in Arriving :
            (Terminal(q) /\ q.path # "rejected"
                /\ Key(q) \notin processedOrders)
               => /\ q.path = "skipped" /\ q.pc = "done" /\ q.status = 200
                  /\ q.calls = <<>> /\ q.attempts = <<>>
                  /\ processedOrders' = processedOrders
       \* a request that was answered does nothing more
       /\ \A q \in Before : q.pc # "done"]_vars

C3_Witness ==
    \E q \in Requests :
       /\ Terminal(q) /\ q.path = "skipped" /\ q.status = 200
       /\ Len(q.body.line_items) = MaxItems
       /\ processedOrders # {}

(***************************************************************************)
(* C4.  In every reachable state an order identifier is in processedOrders *)
(* if and only if a deduction has been applied to the platform for that    *)
(* order and no compensating or restoring action has yet completed for it. *)
(***************************************************************************)
DeductionApplied(k) ==
    \E q \in Passes(CREATED, k) :
       \E j \in 1..Len(q.attempts) : q.attempts[j].ok
CompensationCompleted(k) ==
    \E q \in Passes(CANCELLED, k) \cup Passes(FULFILLED, k) : q.pc = "done"
Quiescent == \A q \in Requests : q.pc = "done"

\* The claim as it stands, looked at only when no handler is running and
\* for orders that came with line items.
C4_TrackedIffDeducted ==
    Quiescent =>
       \A k \in OrderKeys :
          (\A q \in Passes(CREATED, k) : Len(q.body.line_items) > 0)
             => (k \in processedOrders
                   <=> (DeductionApplied(k) /\ ~CompensationCompleted(k)))

\* Amended: an identifier enters the set when an order-created handler
\* starts on it, leaves it when an order-cancelled or order-fulfilled
\* handler that found it there has finished its loop, and at no other time.
CreatedStarts(k) ==
    \E q \in Arriving : q.kind = CREATED /\ q.path = "processed" /\ Key(q) = k
TerminalFinishes(k) ==
    \E q \in Responding : Terminal(q) /\ q.path = "processed" /\ Key(q) = k

C4_TrackedFromCreatedStartToTerminalEnd ==
    [][\A k \in OrderKeys :
          /\ CreatedStarts(k) => k \in processedOrders'
          /\ TerminalFinishes(k) => k \notin processedOrders'
          /\ (~CreatedStarts(k) /\ ~TerminalFinishes(k))
                => (k \in processedOrders' <=> k \in processedOrders)]_vars

\* Tracked, and nothing was deducted.
C4_Witness ==
    \E k \in OrderKeys : \E q \in Passes(CREATED, k) :
       /\ Quiescent /\ k \in processedOrders
       /\ Len(q.attempts) = MaxItems
       /\ ~DeductionApplied(k) /\ ~CompensationCompleted(k)

(***************************************************************************)
(* C5.  In each of the three webhook handlers a failed adjustment for one  *)
(* line item does not abort the loop: an adjustment is attempted for every *)
(* line item of the order, in order, and the handler responds 200 however  *)
(* many of them failed.                                                    *)
(***************************************************************************)
\* The sign a handler gives the quantity of a line item.
SignOf(kind) == IF kind = CREATED THEN 0 - 1 ELSE 1

C5_EveryLineItemAttempted ==
    \A q \in Requests :
       \* a handler that has entered its loop leaves it by its end only
       /\ q.path = "threw" => ~q.body.has_line_items /\ q.status = 500
       /\ q.path \notin {"rejected", "skipped", "threw"} =>
             q.path = "processed"
       /\ q.path = "processed" =>
          /\ Len(q.attempts) =
                (IF q.pc = "done" THEN Len(q.body.line_items) ELSE q.i - 1)
          /\ \A j \in 1..Len(q.attempts) :
                /\ q.attempts[j].variant_id = q.body.line_items[j].variant_id
                /\ q.attempts[j].adjustment =
                      SignOf(q.kind) * q.body.line_items[j].quantity
          /\ q.pc = "done" => q.status = 200
          /\ q.pc # "done" =>
                /\ q.i \in 1..Len(q.body.line_items)
                /\ q.calls[1] = GetVariant(q.body.line_items[q.i].variant_id)

\* The first adjustment failed and the second was attempted, in each of the
\* three handlers.
C5_Witness ==
    \A kind \in Webhooks : \E q \in Requests :
       /\ q.kind = kind /\ q.path = "processed"
       /\ Len(q.attempts) = 2 /\ ~q.attempts[1].ok
       /\ q.pc = "done" /\ q.status = 200

(***************************************************************************)
(* C6.  A webhook request whose signature check fails (the header missing  *)
(* or not equal to the recomputed HMAC) gets a 401, its handler is never   *)
(* invoked, no platform call is made and processedOrders is unchanged, on  *)
(* all three webhook endpoints.                                            *)
(***************************************************************************)
C6_BadSignatureIsRejected ==
    [][/\ \A q \in Arriving :
            \* a request that is not turned away carries the tag of its body
            /\ q.path # "rejected"
                  => q.hmac = Hmac(SHOPIFY_WEBHOOK_SECRET,
                                   JsonStringify(q.body))
            /\ q.path = "rejected"
                  => /\ q.pc = "done" /\ q.status = 401
                     /\ q.calls = <<>> /\ q.attempts = <<>>
                     /\ processedOrders' = processedOrders
       /\ \A q \in Before : q.path # "rejected"]_vars

\* Each endpoint has turned a request away while an order was tracked.
C6_Witness ==
    /\ \E q \in Requests : q.path = "rejected" /\ q.status = 401
    /\ \E q \in Requests : q.path = "processed" /\ q.kind = CREATED
    /\ processedOrders # {}
    /\ BagCardinality(reqs) = 2

(***************************************************************************)
(* C7.  When the deliveries for an order are processed one at a time,      *)
(* there is no double compensation: the compensation passes (the cancel or *)
(* fulfil runs that go through their loop) never outnumber the             *)
(* order-created passes, and a terminal event after another issues no      *)
(* adjustment.                                                             *)
(***************************************************************************)
TerminalPasses(k) == Passes(CANCELLED, k) \cup Passes(FULFILLED, k)

C7_NoDoubleCompensationInTurn ==
    \A k \in OrderKeys :
       /\ Count(TerminalPasses(k), reqs) <= Count(Passes(CREATED, k), reqs)
       \* a compensation pass runs on an order that is tracked, so the
       \* terminal event that comes after it is skipped
       /\ \A q \in TerminalPasses(k) : q.pc # "done" => k \in processedOrders
       \* a terminal event finds the order tracked only if an order-created
       \* pass has come since the last compensation pass finished
       /\ Count({q \in TerminalPasses(k) : q.pc = "done"}, reqs)
             + (IF k \in processedOrders THEN 1 ELSE 0)
          <= Count(Passes(CREATED, k), reqs)

\* order-created, a terminal event that compensates, a terminal event that
\* is skipped.
C7_Witness ==
    \E k \in OrderKeys :
       /\ Quiescent
       /\ \E c \in Passes(CREATED, k) : Len(c.attempts) = MaxItems
       /\ \E t \in TerminalPasses(k) : Len(t.attempts) = MaxItems
       /\ \E t \in AcceptedFor(k) :
             /\ Terminal(t) /\ t.path = "skipped"
             /\ Len(t.body.line_items) = MaxItems

(***************************************************************************)
(* C8.  order-created has no idempotence check: delivered for an order     *)
(* that is already Tracked it again issues adjust(variantId, -quantity)    *)
(* for every line item and leaves the order Tracked, so n deliveries       *)
(* deduct n times while a later terminal event compensates once.           *)
(***************************************************************************)
C8_CreatedAgainDeductsAgain ==
    [][/\ \A q \in Arriving :
            (q.kind = CREATED /\ q.path # "rejected"
                /\ q.body.has_line_items /\ Key(q) \in processedOrders)
               => /\ q.path = "processed"
                  /\ Key(q) \in processedOrders'
                  /\ Len(q.body.line_items) > 0
                        => /\ q.pc = "variant" /\ q.i = 1
                           /\ q.calls =
                                <<GetVariant(q.body.line_items[1].variant_id)>>
       /\ \A q \in Responding :
            (q.kind = CREATED /\ q.path = "processed")
               => /\ Len(q.attempts) = Len(q.body.line_items)
                  /\ \A j \in 1..Len(q.attempts) :
                        /\ q.attempts[j].variant_id =
                              q.body.line_items[j].variant_id
                        /\ q.attempts[j].adjustment =
                              0 - q.body.line_items[j].quantity]_vars

\* Two deliveries of order-created have deducted, one terminal event has
\* compensated: the order is untracked and one deduction stays.
C8_Witness ==
    \E k \in OrderKeys :
       /\ Quiescent /\ k \notin processedOrders
       /\ Count(Passes(CREATED, k), reqs) = 2
       /\ Count(TerminalPasses(k), reqs) = 1
       /\ \A q \in AcceptedFor(k) :
             AllOk(q) /\ Len(q.attempts) = 1
       /\ Net(k, LineItemOf(1).variant_id) = 0 - LineItemOf(1).quantity

(***************************************************************************)
(* C9.  Handlers suspend at every platform call and nothing locks          *)
(* processedOrders, so deliveries for one order whose handlers overlap     *)
(* interleave check-then-act: two overlapping terminal events can both     *)
(* pass the check and both add the quantities back, and a terminal event   *)
(* can complete while order-created is still deducting.                    *)
(***************************************************************************)
C9_CheckThenActIsNotAtomic ==
    [][/\ \A q \in Arriving :
            \* the check that finds the order leaves it in the set for as
            \* long as the loop awaits
            (Terminal(q) /\ q.path = "processed" /\ q.pc # "done")
               => /\ Key(q) \in processedOrders
                  /\ processedOrders' = processedOrders
       /\ \A q \in Before : \A n \in Now :
            \* a handler that awaits goes on whatever has become of the set
            /\ n.path = "processed"
            /\ n.pc # "done" => processedOrders' = processedOrders
            /\ n.pc = "done" =>
                  /\ n.status = 200
                  /\ Terminal(n)
                        => processedOrders' = processedOrders \ {Key(n)}
                  /\ n.kind = CREATED
                        => processedOrders' = processedOrders]_vars

\* One order-created pass, still deducting for an order that is no longer
\* tracked, and two terminal passes that have both added a quantity back.
C9_Witness ==
    \E k \in OrderKeys :
       /\ Count(Passes(CREATED, k), reqs) = 1
       /\ Count(TerminalPasses(k), reqs) = 2
       /\ \A t \in TerminalPasses(k) :
             AppliedTo(t.attempts, LineItemOf(1).variant_id) > 0
       /\ \E c \in Passes(CREATED, k) : c.pc # "done"
       /\ k \notin processedOrders

(***************************************************************************)
(* C10.  One call of updateInventoryForVariant issues its platform calls   *)
(* in the order variant lookup, inventory level lookup, adjustment; a      *)
(* successful one makes two reads and one adjustment, which carries the    *)
(* first returned location, the resolved inventory item and the delta; if  *)
(* a lookup fails or returns no level no adjustment is made and the call   *)
(* fails; no call is retried.                                              *)
(***************************************************************************)
\* The calls a handler that awaits has made for its line item.
CallsInOrder(q) ==
    LET item == q.body.line_items[q.i]
        lookup == GetVariant(item.variant_id)
        levels == GetInventoryLevels(q.inventoryItemId)
        adjust == PostAdjust(q.levels[1], q.inventoryItemId,
                             SignOf(q.kind) * item.quantity)
    IN  /\ q.pc = "variant" => q.calls = <<lookup>>
        /\ q.pc = "levels" =>
              /\ q.calls = <<lookup, levels>>
              /\ q.inventoryItemId = InventoryItemIdOf(item.variant_id)
        /\ q.pc = "adjust" =>
              /\ q.levels # <<>>
              /\ q.calls = <<lookup, levels, adjust>>
              /\ q.inventoryItemId = InventoryItemIdOf(item.variant_id)

C10_LookupLevelsAdjust ==
    [][/\ \A n \in Now : n.pc # "done" => CallsInOrder(n)
       /\ \A q \in Before : \A n \in Now :
            IF Len(n.attempts) = Len(q.attempts)
            THEN \* the call goes on: one more platform call, none again
                 /\ Len(n.calls) = Len(q.calls) + 1
                 /\ SubSeq(n.calls, 1, Len(q.calls)) = q.calls
            ELSE \* the call is over
                 /\ Len(n.attempts) = Len(q.attempts) + 1
                 /\ n.attempts[Len(n.attempts)].ok => q.pc = "adjust"
                 /\ q.pc \in {"variant", "levels"}
                       => ~n.attempts[Len(n.attempts)].ok]_vars

\* An adjustment is on its way after the two lookups, the call before it
\* having succeeded.
C10_Witness ==
    \E q \in Requests :
       /\ q.pc = "adjust" /\ Len(q.calls) = 3 /\ Len(q.levels) = 2
       /\ Len(q.attempts) = 1 /\ q.attempts[1].ok

(***************************************************************************)
(* C11.  processedOrders is changed only by the three webhook handlers:    *)
(* POST /test/process-order (which applies -quantity per line item),       *)
(* GET /health and GET /test-connection never add to it or remove from it, *)
(* and POST /test/process-order without orderId or without lineItems       *)
(* responds 400 with no platform call.                                     *)
(***************************************************************************)
C11_OnlyWebhooksChangeTheSet ==
    [][/\ \A n \in Now :
            /\ n.kind \notin Webhooks => processedOrders' = processedOrders
            /\ n.kind = TEST_PROCESS_ORDER =>
                  \A j \in 1..Len(n.attempts) :
                     /\ n.attempts[j].variant_id =
                           n.body.line_items[j].variant_id
                     /\ n.attempts[j].adjustment =
                           0 - n.body.line_items[j].quantity
       /\ processedOrders' # processedOrders =>
             \E n \in Now : n.kind \in Webhooks /\ n.path = "processed"
       /\ \A q \in Arriving :
            (q.kind = TEST_PROCESS_ORDER
                /\ (q.body.id.t = "missing" \/ ~q.body.has_line_items))
               => /\ q.pc = "done" /\ q.status = 400
                  /\ q.calls = <<>> /\ q.attempts = <<>>]_vars

\* A test order has been deducted and is not tracked, while a webhook's
\* order is; a test order without lineItems got 400.
C11_Witness ==
    /\ \E q \in Requests :
          /\ q.kind = TEST_PROCESS_ORDER /\ q.status = 200
          /\ Len(q.attempts) = 1 /\ q.attempts[1].ok
          /\ IdToString(q.body.id) \notin processedOrders
    /\ \E q \in Requests :
          /\ q.kind = TEST_PROCESS_ORDER /\ q.status = 400
          /\ q.body.id.t # "missing"
    /\ processedOrders # {}

(***************************************************************************)
(* C12.  processedOrders is not persisted: a restart of the process resets *)
(* it to empty, so an order-cancelled or order-fulfilled that arrives      *)
(* after a restart for an order deducted before the restart is treated as  *)
(* untracked: no adjustment, 200.                                          *)
(***************************************************************************)
\* A deduction of order-created has been applied for order k.
Deducted(k) ==
    \E q \in Requests :
       /\ q.kind = CREATED /\ Key(q) = k
       /\ \E v \in VariantIds : AppliedTo(q.attempts, v) < 0

\* The step is a restart: handlers die, or none was there and the set goes.
Restarting ==
    \/ \E n \in Now : n.pc = "dead"
    \/ Now = {} /\ processedOrders' # processedOrders

C12_RestartForgetsTrackedOrders ==
    [][/\ Restarting =>
             /\ processedOrders' = {}
             /\ \A n \in BagToSet(reqs') : n.pc \in {"done", "dead"}
       /\ \A q \in Arriving :
            (Terminal(q) /\ q.path # "rejected" /\ Deducted(Key(q))
                /\ Key(q) \notin processedOrders)
               => /\ q.path = "skipped" /\ q.pc = "done" /\ q.status = 200
                  /\ q.calls = <<>> /\ q.attempts = <<>>
                  /\ processedOrders' = processedOrders]_vars

\* An order deducted by an order-created pass that has responded, no
\* terminal event has compensated it, and it is not tracked: the process has
\* restarted; a terminal event for it has been skipped.
C12_Witness ==
    \E k \in OrderKeys :
       /\ \E c \in Passes(CREATED, k) :
             /\ c.pc = "done" /\ AllOk(c) /\ Len(c.attempts) = MaxItems
       /\ TerminalPasses(k) = {}
       /\ k \notin processedOrders
       /\ \E t \in AcceptedFor(k) :
             /\ Terminal(t) /\ t.path = "skipped" /\ t.status = 200
             /\ Len(t.body.line_items) = MaxItems

(***************************************************************************)
(* C13.  Errors of updateInventoryForVariant are caught per line item and  *)
(* never pass an order-processing loop: in every endpoint that loops over  *)
(* line items, POST /test/process-order included, a failing adjustment     *)
(* leaves the later line items attempted and does not by itself make the   *)
(* response a 500.                                                         *)
(***************************************************************************)
\* The requests of the routes that loop over line items.
Looping == { q \in Requests : q.kind \in Webhooks \cup {TEST_PROCESS_ORDER} }

\* The handler of q was given line items to loop over.
EnteredLoop(q) == q.body.has_line_items /\ q.path \in {"processed", "threw"}

\* As the claim has it, for every looping route.
C13_NoLoopIsAborted ==
    \A q \in Looping :
       (EnteredLoop(q) /\ q.pc = "done")
          => /\ Len(q.attempts) = Len(q.body.line_items)
             /\ q.status = 200

\* As the code has it: the loops of the three webhooks catch per line item;
\* the loop of /test/process-order has no catch, so its first failing
\* adjustment is its last attempt and the response is 500.
C13_WebhookLoopsCatchTestLoopAborts ==
    \A q \in Looping :
       (EnteredLoop(q) /\ q.pc = "done")
          => IF q.kind \in Webhooks
             THEN /\ Len(q.attempts) = Len(q.body.line_items)
                  /\ q.status = 200
             ELSE IF AllOk(q)
             THEN /\ Len(q.attempts) = Len(q.body.line_items)
                  /\ q.status = 200
             ELSE /\ q.status = 500
                  /\ \A j \in 1..Len(q.attempts) :
                        q.attempts[j].ok <=> j < Len(q.attempts)

\* The first of two adjustments failed: a webhook went on to the second and
\* answered 200, /test/process-order stopped and answered 500.
C13_Witness ==
    /\ \E q \in WebhookRequests :
          /\ Len(q.attempts) = 2 /\ ~q.attempts[1].ok /\ q.status = 200
    /\ \E q \in TestRequests :
          /\ Len(q.body.line_items) = 2
          /\ Len(q.attempts) = 1 /\ ~q.attempts[1].ok /\ q.status = 500

(***************************************************************************)
(* C14.  In order-created processing the order id is added to              *)
(* processedOrders before the first adjustment call is issued and stays in *)
(* it for the whole deduction loop: while an order-created pass is in      *)
(* flight the order is tracked, and a terminal event that arrives then is  *)
(* processed as tracked, not skipped.                                      *)
(***************************************************************************)
\* The order-created passes still in their loop, for order k.
CreatedInFlight(k) == { q \in Passes(CREATED, k) : q.pc # "done" }

C14_TrackedWhileCreatedInFlight ==
    [][/\ \A k \in OrderKeys :
            CreatedInFlight(k)' # {} => k \in processedOrders'
       /\ \A q \in Arriving :
            (Terminal(q) /\ q.path # "rejected"
                /\ CreatedInFlight(Key(q)) # {})
               => q.path # "skipped"]_vars

(***************************************************************************)
(* C15.  In order-cancelled and order-fulfilled processing of a tracked    *)
(* order the id is removed from processedOrders only after an adjustment   *)
(* has been attempted for every line item, and it is removed even when     *)
(* some or all of those adjustments failed; a later terminal event for the *)
(* order never attempts the failed compensation again.                     *)
(***************************************************************************)
C15_UntrackedAfterLoopWhateverFailed ==
    [][/\ \A n \in Now :
            (Terminal(n) /\ n.path = "processed")
               => IF n.pc = "done"
                  THEN /\ Len(n.attempts) = Len(n.body.line_items)
                       /\ Key(n) \notin processedOrders'
                       /\ n.status = 200
                  ELSE /\ Len(n.attempts) < Len(n.body.line_items)
                       /\ processedOrders' = processedOrders
       /\ \A q \in Arriving :
            (Terminal(q) /\ q.path # "rejected"
                /\ Key(q) \notin processedOrders)
               => q.attempts = <<>> /\ q.calls = <<>> /\ q.pc = "done"]_vars

\* Every compensating adjustment of a terminal pass failed, the order is
\* untracked all the same, and the next terminal event was skipped.
C15_Witness ==
    \E k \in OrderKeys :
       /\ Quiescent /\ k \notin processedOrders
       /\ Count(Passes(CREATED, k), reqs) = 1
       /\ \E t \in TerminalPasses(k) :
             /\ Len(t.attempts) = MaxItems
             /\ \A j \in 1..Len(t.attempts) : ~t.attempts[j].ok
       /\ \E t \in AcceptedFor(k) : Terminal(t) /\ t.path = "skipped"

(***************************************************************************)
(* C16.  The service records order ids only, not what it deducted: the     *)
(* compensating adjustments of order-cancelled and order-fulfilled are     *)
(* +quantity for each line item of the terminal event's own payload, in    *)
(* payload order, whatever line items order-created carried.               *)
(***************************************************************************)
\* The adjustments a handler has asked for, finished or under way.
Asked(q) ==
    [j \in 1..Len(q.attempts) |->
        <<q.attempts[j].variant_id, q.attempts[j].adjustment>>]

\* +quantity for each of the first n line items of a payload.
OwnPayload(body, n) ==
    [j \in 1..n |-> <<body.line_items[j].variant_id,
                      body.line_items[j].quantity>>]

C16_CompensationFollowsOwnPayload ==
    /\ processedOrders \subseteq OrderKeys
    /\ \A k \in OrderKeys : \A t \in TerminalPasses(k) :
          /\ Asked(t) = OwnPayload(t.body, Len(t.attempts))
          /\ t.pc = "done" => Len(t.attempts) = Len(t.body.line_items)
          /\ t.pc = "adjust" =>
                t.calls[3] = PostAdjust(t.levels[1], t.inventoryItemId,
                                        t.body.line_items[t.i].quantity)

\* order-created deducted one line item, the terminal event carried two
\* and added both back: the second variant is up by its quantity.
C16_Witness ==
    \E k \in OrderKeys :
       /\ Quiescent
       /\ Count(AcceptedFor(k), reqs) = 2
       /\ \E c \in Passes(CREATED, k) :
             Len(c.body.line_items) = 1 /\ AllOk(c)
       /\ \E t \in TerminalPasses(k) :
             Len(t.body.line_items) = 2 /\ AllOk(t)
       /\ Net(k, LineItemOf(1).variant_id) = 0
       /\ Net(k, LineItemOf(2).variant_id) = LineItemOf(2).quantity

(***************************************************************************)
(* C17.  Orders are isolated from each other: processing an event for      *)
(* order A, under any interleaving with events for another order B, never  *)
(* adds or removes B's id in processedOrders and never issues an           *)
(* adjustment derived from B's line items.                                 *)
(***************************************************************************)
C17_OrdersAreIsolated ==
    [][/\ Cardinality(Before) <= 1 /\ Cardinality(Now) = 1
       /\ \A n \in Now :
            \* the step of a handler of order A leaves every other id alone
            /\ \A k \in OrderKeys :
                  k # Key(n) => (k \in processedOrders' <=> k \in processedOrders)
            \* it works on its own payload
            /\ \A q \in Before : q.kind = n.kind /\ q.body = n.body
            /\ \A j \in 1..Len(n.attempts) :
                  /\ j <= Len(n.body.line_items)
                  /\ n.attempts[j].variant_id = n.body.line_items[j].variant_id
                  /\ n.attempts[j].adjustment =
                        SignOf(n.kind) * n.body.line_items[j].quantity
            /\ n.pc \notin {"done"} =>
                  n.calls[1] = GetVariant(n.body.line_items[n.i].variant_id)
       \* and every other request is as it was
       /\ \A q \in BagToSet(reqs) \ Before : CopiesIn(q, reqs') >= CopiesIn(q, reqs)
      ]_vars

\* One order has been deducted and compensated, with fewer line items than
\* another order whose order-created pass is in flight and tracked.
C17_Witness ==
    \E a \in OrderKeys : \E b \in OrderKeys \ {a} :
       /\ a \notin processedOrders /\ b \in processedOrders
       /\ \E t \in TerminalPasses(a) :
             t.pc = "done" /\ Len(t.attempts) = 1 /\ AllOk(t)
       /\ \E c \in Passes(CREATED, b) :
             /\ c.pc # "done" /\ Len(c.body.line_items) = 2
             /\ Len(c.attempts) = 1

(***************************************************************************)
(* C18.  Provided every platform call returns in the end, every webhook    *)
(* request that passes verifyWebhook gets exactly one response in the end, *)
(* 200 or 500: no handler path sends two responses or none, the early      *)
(* return of order-cancelled and order-fulfilled for an untracked order    *)
(* included.                                                               *)
(***************************************************************************)
\* The verified requests that have no response yet.
Unanswered == { q \in Requests : q.path # "rejected" /\ q.pc # "done" }

C18_OneResponseInTheEnd ==
    \* a handler that has responded takes no further step
    /\ [][\A q \in Before : q.pc # "done" /\ q.status = 0]_vars
    \* a response to a verified request is a 200 or a 500; a handler that
    \* has not responded awaits a platform call
    /\ [](\A q \in Requests :
            q.path # "rejected" =>
               IF q.pc = "done" THEN q.status \in {200, 500}
               ELSE /\ q.status = 0
                    /\ q.pc \in {"variant", "levels", "adjust"}
                    /\ Len(q.calls) > 0)
    \* and the call returns, so the response comes
    /\ (Unanswered # {}) ~> (Unanswered = {})

\* The early return has answered a terminal event, a handler has answered
\* after its loop, and no request waits.
C18_Witness ==
    /\ Unanswered = {}
    /\ BagCardinality(reqs) = MaxReq
    /\ \E q \in Requests : Terminal(q) /\ q.path = "skipped" /\ q.status = 200
    /\ \E q \in Requests :
          /\ q.path = "processed" /\ q.status = 200
          /\ Len(q.attempts) = MaxItems
    /\ \E q \in Requests : q.path = "threw" /\ q.status = 500

====
